---- MODULE Spec2Model ----
(***************************************************************************)
(* Model of film_spider.py: the FilmsSpider callbacks parse (category      *)
(* page), parse_article (article page) and is_film_page (classifier), and  *)
(* the crawl they drive.                                                   *)
(*                                                                         *)
(* Texts are sequences of one-character strings, so that strip, lower,     *)
(* substring tests, joins and the \d{4} search are computed and not        *)
(* assumed.  Cyrillic keywords are written in Latin transliteration:       *)
(* 'жанр' = zhanr, 'режис' = rezhis, 'стра' = stra, 'год' = god,            *)
(* 'фильм' = film, 'фильмы' = filmy, 'не указано' = "ne ukazano".           *)
(***************************************************************************)
EXTENDS Integers, Sequences, FiniteSets, Bags, TLC

VARIABLES
    \* ---- one run of parse_article on one response (SpecArticle)
    adoc,       \* the response: heading, url, infobox, lead text, categories
    apc,        \* position inside parse_article
    title,      \* local variable title
    item,       \* local variable item (the FilmItem), NoItem before line 97
    rowIdx,     \* index of the next infobox row of the for loop
    emitted,    \* items yielded by parse_article
    \* ---- one run of is_film_page on one response (SpecClassify)
    cdoc,       \* the response given to is_film_page
    cpc,        \* position inside is_film_page
    verdict,    \* the value returned
    \* ---- one run of parse on one category response (SpecParse)
    presp,      \* the response given to parse
    ppc,        \* position inside parse
    pout,       \* the requests parse yielded, and whether it raised
    \* ---- the crawl: the engine driving the callbacks (Spec, FairSpec)
    started,    \* the start requests have been issued
    frontier,   \* bag of requests waiting in the scheduler
    seen,       \* URLs recorded by the scheduler's duplicate filter
    inflight,   \* bag of requests being downloaded
    fetchCount, \* per URL, the number of downloads started
    records,    \* the items delivered to the feed, with the URL of their page
    articleLog, \* per parse_article run, in order: the URL and the verdict
    failed      \* URLs a download of which failed

articleVars == <<adoc, apc, title, item, rowIdx, emitted>>
classifyVars == <<cdoc, cpc, verdict>>
parseVars == <<presp, ppc, pout>>
crawlVars == <<started, frontier, seen, inflight, fetchCount, records, articleLog, failed>>
vars == <<articleVars, classifyVars, parseVars, crawlVars>>

(***************************************************************************)
(* Bounds of the model.                                                    *)
(***************************************************************************)
MaxRows == 2        \* infobox rows per article page
MaxLinks == 2       \* links per zone of a category page given to parse
NumUrls == 4        \* URLs of the crawled site
MaxFetches == 2     \* downloads of one URL the crawl model follows

(***************************************************************************)
(* Text primitives (Python str methods and re.search).                     *)
(***************************************************************************)
None == <<"<None>">>

IsSpace(c) == c = " "
IsDigit(c) == c \in {"0", "1", "2", "3", "4", "5", "6", "7", "8", "9"}

UpperToLower ==
    ("Z" :> "z") @@ ("R" :> "r") @@ ("S" :> "s") @@ ("G" :> "g") @@
    ("F" :> "f") @@ ("T" :> "t") @@ ("I" :> "i") @@ ("A" :> "a") @@
    ("Y" :> "y")

\* str.lower()
lower(s) ==
    [i \in 1..Len(s) |-> IF s[i] \in DOMAIN UpperToLower THEN UpperToLower[s[i]] ELSE s[i]]

RECURSIVE lstrip(_)
lstrip(s) == IF s # <<>> /\ IsSpace(Head(s)) THEN lstrip(Tail(s)) ELSE s

RECURSIVE rstrip(_)
rstrip(s) ==
    IF s # <<>> /\ IsSpace(s[Len(s)]) THEN rstrip(SubSeq(s, 1, Len(s) - 1)) ELSE s

\* str.strip()
strip(s) == rstrip(lstrip(s))

\* sub in s
contains(sub, s) ==
    \E i \in 0..(Len(s) - Len(sub)) : SubSeq(s, i + 1, i + Len(sub)) = sub

\* sep.join(parts)
RECURSIVE join(_, _)
join(sep, parts) ==
    IF parts = <<>> THEN <<>>
    ELSE IF Len(parts) = 1 THEN parts[1]
    ELSE parts[1] \o sep \o join(sep, Tail(parts))

\* [f(p) for p in parts if p.strip()] with f = strip
RECURSIVE stripped_nonblank(_)
stripped_nonblank(parts) ==
    IF parts = <<>> THEN <<>>
    ELSE IF strip(Head(parts)) # <<>>
         THEN <<strip(Head(parts))>> \o stripped_nonblank(Tail(parts))
         ELSE stripped_nonblank(Tail(parts))

\* [t.strip() for t in parts]
strip_each(parts) == [i \in 1..Len(parts) |-> strip(parts[i])]

\* s.split(sep)[-1]: the text after the last match of a left-to-right scan
RECURSIVE split_last(_, _)
split_last(s, sep) ==
    IF Len(s) < Len(sep) THEN s
    ELSE LET hits == {i \in 1..(Len(s) - Len(sep) + 1) : SubSeq(s, i, i + Len(sep) - 1) = sep}
         IN  IF hits = {} THEN s
             ELSE LET i == CHOOSE k \in hits : \A j \in hits : k <= j
                  IN  split_last(SubSeq(s, i + Len(sep), Len(s)), sep)

\* s.replace('_', ' ')
replace_underscore(s) == [i \in 1..Len(s) |-> IF s[i] = "_" THEN " " ELSE s[i]]

\* urllib.parse.unquote on the escapes of the model's alphabet
PercentCodes ==
    (<<"2", "0">> :> " ") @@ (<<"2", "8">> :> "(") @@ (<<"2", "9">> :> ")")

RECURSIVE unquote(_)
unquote(s) ==
    IF s = <<>> THEN <<>>
    ELSE IF Head(s) = "%" /\ Len(s) >= 3 /\ SubSeq(s, 2, 3) \in DOMAIN PercentCodes
         THEN <<PercentCodes[SubSeq(s, 2, 3)]>> \o unquote(SubSeq(s, 4, Len(s)))
         ELSE <<Head(s)>> \o unquote(Tail(s))

\* re.search(r'(\d{4})', s): group 1 of the leftmost match, None without one
RECURSIVE re_search_year(_)
re_search_year(s) ==
    IF Len(s) < 4 THEN None
    ELSE IF \A k \in 1..4 : IsDigit(s[k]) THEN SubSeq(s, 1, 4)
    ELSE re_search_year(Tail(s))

\* selector.get(): the first match or None
get(nodes) == IF nodes = <<>> THEN None ELSE nodes[1]

\* Python truthiness of an optional string
truthy(s) == s # None /\ s # <<>>

(***************************************************************************)
(* Literals of the source.                                                 *)
(***************************************************************************)
Sentinel == <<"n", "e", " ", "u", "k", "a", "z", "a", "n", "o">>
KwGenre == <<"z", "h", "a", "n", "r">>
KwDirector == <<"r", "e", "z", "h", "i", "s">>
KwCountry == <<"s", "t", "r", "a">>
KwYear == <<"g", "o", "d">>
KwFilm == <<"f", "i", "l", "m">>
KwFilms == <<"f", "i", "l", "m", "y">>
WikiSep == <<"/", "w", "i", "k", "i", "/">>
LeadNodeLimit == 200

Fields == {"title", "genre", "director", "country", "year"}
NoItem == [none |-> TRUE]

(***************************************************************************)
(* Input texts: headings, URLs, infobox labels and values, lead text,      *)
(* captions and category links the responses are built from.               *)
(***************************************************************************)
T_Blank == <<" ">>
T_FilmA == <<"F", "i", "l", "m", " ", "A">>
T_PadA == <<" ", "A", " ">>
T_ParB == <<"(", "b", ")">>
U_Plain == <<"w", ".", "o", "r", "g", "/", "w", "i", "k", "i", "/", "A", "_", "b">>
U_Escaped == <<"w", ".", "o", "r", "g", "/", "w", "i", "k", "i", "/", "A", "_", "%", "2", "8", "b", "%", "2", "9">>
U_NoTail == <<"w", ".", "o", "r", "g", "/", "w", "i", "k", "i", "/">>
T_Zhanr == <<"Z", "h", "a", "n", "r">>
T_God == <<"G", "o", "d">>
T_Strana == <<"S", "t", "r", "a", "n", "a">>
T_Rezhissyor == <<"R", "e", "z", "h", "i", "s", "s", "y", "o", "r">>
T_Yazyk == <<"Y", "a", "z", "y", "k">>
T_GodZhanra == <<"G", "o", "d", " ", "z", "h", "a", "n", "r", "a">>
T_Film == <<"F", "i", "l", "m">>
T_drama == <<"d", "r", "a", "m", "a">>
T_2015god == <<"2", "0", "1", "5", " ", "g", "o", "d">>
T_netdannyh == <<"n", "e", "t", " ", "d", "a", "n", "n", "y", "h">>
T_SSSR == <<"S", "S", "S", "R">>
T_Ivanov == <<"I", "v", "a", "n", "o", "v">>
T_lead_film1999 == <<"f", "i", "l", "m", " ", "1", "9", "9", "9", " ", "g", "o", "d", "a">>
T_lead_19 == <<"v", " ", "1", "9">>
T_lead_99 == <<"9", "9", " ", "g">>
T_Titanik == <<"T", "i", "t", "a", "n", "i", "k", " ">>
T_parfilm == <<"(", "f", "i", "l", "m", ")">>
T_Filmy2015 == <<" ", "F", "i", "l", "m", "y", " ", "2", "0", "1", "5", " ">>
T_Aktyory == <<"A", "k", "t", "y", "o", "r", "y">>
T_lead_aktyor == <<"a", "k", "t", "y", "o", "r", " ", "1", "9", "5", "0">>

Row(th, td) == [th |-> th, td |-> td]

\* infobox rows: the text nodes under ./th and under ./td
RowSet ==
    { Row(<<T_Zhanr>>, <<T_drama>>),
      Row(<<T_Zhanr>>, <<>>),
      Row(<<T_God>>, <<T_2015god>>),
      Row(<<T_God>>, <<T_netdannyh>>),
      Row(<<T_God>>, <<T_Blank>>),
      Row(<<T_Strana>>, <<T_PadA, T_Blank, T_SSSR>>),
      Row(<<T_Strana>>, <<>>),
      Row(<<T_Rezhissyor>>, <<T_Ivanov>>),
      Row(<<T_Blank, T_Rezhissyor>>, <<T_Blank>>),
      Row(<<T_GodZhanra>>, <<T_drama, T_2015god>>),
      Row(<<T_Film>>, <<>>),
      Row(<<T_Yazyk>>, <<T_drama>>),
      Row(<<>>, <<T_drama>>) }

SeqsUpTo(S, n) == UNION {[1..k -> S] : k \in 0..n}

HeadingSet == { <<>>, <<T_Blank>>, <<T_FilmA>>, <<T_PadA, T_Blank, T_ParB>> }
UrlTextSet == { U_Plain, U_Escaped, U_NoTail }
LeadSet == { <<>>, <<T_lead_film1999>>, <<T_lead_19, T_lead_99>>, <<T_lead_aktyor>> }

Doc(h, u, box, cap, rows, lead, cats) ==
    [heading_parts |-> h, url |-> u, has_infobox |-> box, caption_nodes |-> cap,
     rows |-> rows, lead_nodes |-> lead, cats |-> cats]

\* the responses parse_article is run on; a page without an infobox table
\* has no caption and no rows
ArticleDocs ==
    { Doc(h, u, TRUE, cap, rows, lead, <<>>) :
        h \in HeadingSet, u \in UrlTextSet, cap \in {<<>>, <<T_Film>>},
        rows \in SeqsUpTo(RowSet, MaxRows), lead \in LeadSet }
    \cup
    { Doc(h, u, FALSE, <<>>, <<>>, lead, <<>>) :
        h \in HeadingSet, u \in UrlTextSet, lead \in LeadSet }

(***************************************************************************)
(* is_film_page                                                            *)
(***************************************************************************)
take(s, n) == SubSeq(s, 1, IF Len(s) < n THEN Len(s) ELSE n)

\* //table[contains(@class,'infobox')]//tr/th//text(), in document order
RECURSIVE th_nodes(_)
th_nodes(rows) == IF rows = <<>> THEN <<>> ELSE Head(rows).th \o th_nodes(Tail(rows))

is_film_page(response) ==
    LET has_infobox == response.has_infobox
        caption == get(response.caption_nodes)
        first_pars == response.lead_nodes
        first_text == IF first_pars # <<>>
                      THEN lower(join(<<" ">>, take(first_pars, LeadNodeLimit)))
                      ELSE <<>>
        first_th == get(th_nodes(response.rows))
        cats == [i \in 1..Len(response.cats) |-> lower(strip(response.cats[i]))]
    IN  IF ~has_infobox THEN FALSE
        ELSE IF truthy(caption) /\ contains(KwFilm, lower(caption)) THEN TRUE
        ELSE IF contains(KwFilm, first_text) THEN TRUE
        ELSE IF truthy(first_th) /\ contains(KwFilm, lower(first_th)) THEN TRUE
        ELSE \E i \in 1..Len(cats) : contains(KwFilm, cats[i]) \/ contains(KwFilms, cats[i])

(***************************************************************************)
(* parse_article                                                           *)
(***************************************************************************)
\* lines 74-75
heading_title(response) ==
    strip(join(<<" ">>, stripped_nonblank(response.heading_parts)))

\* lines 79-82
url_title(response) ==
    unquote(replace_underscore(split_last(response.url, WikiSep)))

\* article_title without the last fallback of lines 87-89
article_title_no_last_fallback(response) ==
    LET t1 == heading_title(response)
    IN  IF t1 = <<>> THEN url_title(response) ELSE t1

\* lines 74-89
article_title(response) ==
    LET t1 == heading_title(response)
        t2 == IF t1 = <<>> THEN url_title(response) ELSE t1
    IN  IF t2 = <<>> THEN Sentinel ELSE t2

\* lines 97-103
new_item(t) ==
    [title |-> t, genre |-> Sentinel, director |-> Sentinel,
     country |-> Sentinel, year |-> Sentinel]

\* line 108
row_th(row) == strip(join(<<>>, row.th))

\* lines 109-110
row_td(row) ==
    LET td_parts == stripped_nonblank(row.td)
    IN  IF td_parts # <<>> THEN strip(join(<<",", " ">>, td_parts)) ELSE <<>>

\* year_value without the search for a 4-digit run
year_value_raw(td) == td

\* lines 128-132
year_value(td) ==
    LET m == re_search_year(td) IN IF m # None THEN m ELSE td

\* row_update without the "if td:" guards
row_update_unguarded(it, row) ==
    LET th == row_th(row)
        td == row_td(row)
        th_lower == lower(th)
    IN  IF th = <<>> THEN it
        ELSE IF contains(KwGenre, th_lower) THEN [it EXCEPT !.genre = td]
        ELSE IF contains(KwDirector, th_lower) THEN [it EXCEPT !.director = td]
        ELSE IF contains(KwCountry, th_lower) THEN [it EXCEPT !.country = td]
        ELSE IF contains(KwYear, th_lower) THEN [it EXCEPT !.year = year_value(td)]
        ELSE it

\* row_update writing the default when the value is empty ("td or default")
row_update_defaulting(it, row) ==
    LET th == row_th(row)
        td == row_td(row)
        v == IF td # <<>> THEN td ELSE Sentinel
        th_lower == lower(th)
    IN  IF th = <<>> THEN it
        ELSE IF contains(KwGenre, th_lower) THEN [it EXCEPT !.genre = v]
        ELSE IF contains(KwDirector, th_lower) THEN [it EXCEPT !.director = v]
        ELSE IF contains(KwCountry, th_lower) THEN [it EXCEPT !.country = v]
        ELSE IF contains(KwYear, th_lower) THEN [it EXCEPT !.year = year_value(v)]
        ELSE it

\* lines 108-132: the body of the for loop for one row
row_update(it, row) ==
    LET th == row_th(row)
        td == row_td(row)
        th_lower == lower(th)
    IN  IF th = <<>> THEN it
        ELSE IF contains(KwGenre, th_lower)
             THEN IF td # <<>> THEN [it EXCEPT !.genre = td] ELSE it
        ELSE IF contains(KwDirector, th_lower)
             THEN IF td # <<>> THEN [it EXCEPT !.director = td] ELSE it
        ELSE IF contains(KwCountry, th_lower)
             THEN IF td # <<>> THEN [it EXCEPT !.country = td] ELSE it
        ELSE IF contains(KwYear, th_lower)
             THEN IF td # <<>> THEN [it EXCEPT !.year = year_value(td)] ELSE it
        ELSE it

\* lines 135-140
year_fallback(it, response) ==
    IF it.year = Sentinel
    THEN LET first_pars == response.lead_nodes
             first_text == strip(join(<<" ">>, strip_each(first_pars)))
             m == re_search_year(first_text)
         IN  IF m # None THEN [it EXCEPT !.year = m] ELSE it
    ELSE it

\* lines 106-132: the whole for loop
RECURSIVE process_rows(_, _)
process_rows(it, rows) ==
    IF rows = <<>> THEN it ELSE process_rows(row_update(it, Head(rows)), Tail(rows))

\* parse_article yielding its item without asking is_film_page
parse_article_unchecked(response) ==
    << year_fallback(process_rows(new_item(article_title(response)), response.rows),
                     response) >>

\* parse_article as a function: the items it yields for a response
parse_article(response) ==
    IF ~is_film_page(response) THEN <<>>
    ELSE << year_fallback(process_rows(new_item(article_title(response)), response.rows),
                          response) >>

(***************************************************************************)
(* SpecArticle: one run of parse_article, one step per statement group.    *)
(***************************************************************************)
NoDoc == [none |-> TRUE]

ClassifyIdle == cdoc = NoDoc /\ cpc = "off" /\ verdict = FALSE

ArticleIdle ==
    /\ adoc = NoDoc /\ apc = "off" /\ title = <<>> /\ item = NoItem
    /\ rowIdx = 1 /\ emitted = <<>>

ParseIdle == presp = NoDoc /\ ppc = "off" /\ pout = NoDoc

CrawlIdle ==
    /\ started = FALSE /\ frontier = EmptyBag /\ seen = {} /\ inflight = EmptyBag
    /\ fetchCount = <<>> /\ records = <<>> /\ articleLog = <<>> /\ failed = {}

InitArticle ==
    /\ adoc \in ArticleDocs
    /\ apc = "title"
    /\ title = <<>>
    /\ item = NoItem
    /\ rowIdx = 1
    /\ emitted = <<>>
    /\ ClassifyIdle
    /\ ParseIdle
    /\ CrawlIdle

\* lines 74-89
ArticleTitle ==
    /\ apc = "title"
    /\ title' = article_title(adoc)
    /\ apc' = "check"
    /\ UNCHANGED <<adoc, item, rowIdx, emitted, classifyVars, parseVars, crawlVars>>

\* lines 92-103
ArticleCheck ==
    /\ apc = "check"
    /\ IF ~is_film_page(adoc)
       THEN apc' = "skipped" /\ item' = item
       ELSE apc' = "rows" /\ item' = new_item(title)
    /\ UNCHANGED <<adoc, title, rowIdx, emitted, classifyVars, parseVars, crawlVars>>

\* lines 107-132, one iteration
ArticleRow ==
    /\ apc = "rows"
    /\ rowIdx <= Len(adoc.rows)
    /\ item' = row_update(item, adoc.rows[rowIdx])
    /\ rowIdx' = rowIdx + 1
    /\ UNCHANGED <<adoc, apc, title, emitted, classifyVars, parseVars, crawlVars>>

\* lines 135-140
ArticleFallback ==
    /\ apc = "rows"
    /\ rowIdx > Len(adoc.rows)
    /\ item' = year_fallback(item, adoc)
    /\ apc' = "yield"
    /\ UNCHANGED <<adoc, title, rowIdx, emitted, classifyVars, parseVars, crawlVars>>

\* line 141
ArticleYield ==
    /\ apc = "yield"
    /\ emitted' = Append(emitted, item)
    /\ apc' = "done"
    /\ UNCHANGED <<adoc, title, item, rowIdx, classifyVars, parseVars, crawlVars>>

NextArticle ==
    \/ ArticleTitle
    \/ ArticleCheck
    \/ ArticleRow
    \/ ArticleFallback
    \/ ArticleYield

SpecArticle == InitArticle /\ [][NextArticle]_vars

(***************************************************************************)
(* Properties of parse_article (SpecArticle).                              *)
(***************************************************************************)
ExtractedFields == {"genre", "director", "country", "year"}

IsYearRun(s) == Len(s) = 4 /\ \A k \in 1..4 : IsDigit(s[k])

\* the label of a row routes to field f: first keyword, in the order genre,
\* director, country, year, that the lowercased label contains
RoutesTo(row, f) ==
    LET l == lower(row_th(row))
        g == contains(KwGenre, l)
        d == contains(KwDirector, l)
        c == contains(KwCountry, l)
        y == contains(KwYear, l)
    IN  CASE f = "genre" -> g
          [] f = "director" -> ~g /\ d
          [] f = "country" -> ~g /\ ~d /\ c
          [] f = "year" -> ~g /\ ~d /\ ~c /\ y
          [] OTHER -> FALSE

\* C3: every emitted Record has exactly the five keys title, genre, director,
\* country, year, and every value is a non-empty string (an extracted value
\* or the sentinel): no key is missing and no value is the empty string.
C3_Totality ==
    \A i \in 1..Len(emitted) :
        /\ DOMAIN emitted[i] = Fields
        /\ \A f \in Fields : emitted[i][f] # <<>> /\ emitted[i][f] # None

\* a record was emitted for a page one of whose rows has a label but an empty
\* value, and one of whose fields kept the sentinel
C3_Witness ==
    /\ Len(emitted) = 1
    /\ \E k \in 1..Len(adoc.rows) : row_th(adoc.rows[k]) # <<>> /\ row_td(adoc.rows[k]) = <<>>
    /\ \E f \in ExtractedFields : emitted[1][f] = Sentinel
    /\ \E f \in ExtractedFields : emitted[1][f] # Sentinel

\* C4 as claimed: the title of every emitted Record is non-empty, is the
\* heading text or the URL-derived value, and is never the sentinel.
C4_TitleNeverSentinel ==
    \A i \in 1..Len(emitted) :
        /\ emitted[i].title # <<>>
        /\ emitted[i].title # Sentinel
        /\ emitted[i].title \in {heading_title(adoc), url_title(adoc)}

\* C4 amended: the title of every emitted Record is non-empty; it is the
\* heading text when that is non-empty, else the URL-derived value when that
\* is non-empty, and the sentinel exactly when both are empty.
C4_TitleFallbackChain ==
    \A i \in 1..Len(emitted) :
        LET t == emitted[i].title
            h == heading_title(adoc)
            u == url_title(adoc)
        IN  /\ t # <<>>
            /\ h # <<>> => t = h
            /\ (h = <<>> /\ u # <<>>) => t = u
            /\ (h = <<>> /\ u = <<>>) => t = Sentinel

\* a record was emitted for a page with an empty heading whose URL ends in
\* '/wiki/': its title is the sentinel
C4_Witness ==
    /\ Len(emitted) = 1
    /\ stripped_nonblank(adoc.heading_parts) = <<>>
    /\ adoc.url = U_NoTail
    /\ emitted[1].title = Sentinel

\* C5: while the rows of one page are processed and the year fallback runs,
\* a field that holds a non-sentinel value is never reset to the sentinel or
\* to the empty string; it changes only to the non-empty value extracted from
\* the row being processed, a row whose label routes to that field.
C5_MonotonicUpgrade ==
    [][ (apc = "rows" /\ item # NoItem) =>
            \A f \in ExtractedFields :
                item[f] # Sentinel =>
                    /\ item'[f] # Sentinel
                    /\ item'[f] # <<>>
                    /\ item'[f] # item[f] =>
                          /\ rowIdx <= Len(adoc.rows)
                          /\ RoutesTo(adoc.rows[rowIdx], f)
                          /\ \/ item'[f] = row_td(adoc.rows[rowIdx])
                             \/ f = "year" /\ IsYearRun(item'[f])
                                           /\ contains(item'[f], row_td(adoc.rows[rowIdx]))
      ]_vars

\* the genre was set by the first row, and a second genre row with an empty
\* value has been processed
C5_Witness ==
    /\ apc = "rows"
    /\ rowIdx = 3
    /\ adoc.rows[1] = Row(<<T_Zhanr>>, <<T_drama>>)
    /\ adoc.rows[2] = Row(<<T_Zhanr>>, <<>>)
    /\ item.genre = T_drama

\* C8: processing a row whose label routes to the year field and whose
\* joined value is non-empty sets year to the leftmost 4-digit run of the
\* value when it has one, and to the value itself otherwise.
C8_YearNormalization ==
    [][ (apc = "rows" /\ rowIdx <= Len(adoc.rows)
            /\ RoutesTo(adoc.rows[rowIdx], "year")
            /\ row_td(adoc.rows[rowIdx]) # <<>>) =>
            LET td == row_td(adoc.rows[rowIdx])
                runs == {i \in 1..(Len(td) - 3) : IsYearRun(SubSeq(td, i, i + 3))}
            IN  IF runs = {} THEN item'.year = td
                ELSE \E i \in runs : /\ \A j \in runs : i <= j
                                     /\ item'.year = SubSeq(td, i, i + 3)
      ]_vars

\* ("God", "2015 god") gave year "2015" and ("God", "net dannyh") then gave
\* year "net dannyh"
C8_Witness ==
    /\ apc = "rows"
    /\ rowIdx = 3
    /\ adoc.rows[1] = Row(<<T_God>>, <<T_2015god>>)
    /\ adoc.rows[2] = Row(<<T_God>>, <<T_netdannyh>>)
    /\ item.year = T_netdannyh

(***************************************************************************)
(* SpecClassify: is_film_page applied to one response.                     *)
(***************************************************************************)
CaptionSet == { <<>>, <<T_Film>>, <<T_Titanik>>, <<T_Titanik, T_parfilm>> }
ClassifyLeadSet == { <<>>, <<T_lead_film1999>>, <<T_lead_aktyor>> }
ClassifyRowsSet ==
    { <<>>,
      <<Row(<<T_Film>>, <<>>)>>,
      <<Row(<<T_God>>, <<T_2015god>>)>>,
      <<Row(<<T_Blank, T_Film>>, <<>>)>>,
      <<Row(<<>>, <<T_drama>>), Row(<<T_Film>>, <<>>)>> }
CatLinkSet == { <<>>, <<T_Aktyory>>, <<T_Aktyory, T_Filmy2015>> }

ClassifyDocs ==
    { Doc(<<T_FilmA>>, U_Plain, TRUE, cap, rows, lead, cats) :
        cap \in CaptionSet, rows \in ClassifyRowsSet, lead \in ClassifyLeadSet,
        cats \in CatLinkSet }
    \cup
    { Doc(<<T_FilmA>>, U_Plain, FALSE, <<>>, <<>>, lead, cats) :
        lead \in ClassifyLeadSet, cats \in CatLinkSet }

InitClassify ==
    /\ cdoc \in ClassifyDocs
    /\ cpc = "call"
    /\ verdict = FALSE
    /\ ArticleIdle
    /\ ParseIdle
    /\ CrawlIdle

\* lines 143-173
Classify ==
    /\ cpc = "call"
    /\ verdict' = is_film_page(cdoc)
    /\ cpc' = "returned"
    /\ UNCHANGED <<cdoc, articleVars, parseVars, crawlVars>>

NextClassify == Classify

SpecClassify == InitClassify /\ [][NextClassify]_vars

\* the four signals as the classifier's contract names them
CaptionHasKeyword(d) == contains(KwFilm, lower(join(<<>>, d.caption_nodes)))
LeadHasKeyword(d) ==
    contains(KwFilm, lower(join(<<" ">>, take(d.lead_nodes, LeadNodeLimit))))
FirstLabelHasKeyword(d) ==
    \E k \in 1..Len(d.rows) :
        /\ d.rows[k].th # <<>>
        /\ \A j \in 1..(k - 1) : d.rows[j].th = <<>>
        /\ contains(KwFilm, lower(row_th(d.rows[k])))
CategoryHasKeyword(d) ==
    \E i \in 1..Len(d.cats) : contains(KwFilm, lower(d.cats[i]))

\* C6: is_film_page is true exactly when the page has an infobox and the
\* keyword occurs in the caption text, in the first 200 lead text tokens, in
\* the label of the first infobox row, or in a category link's text.
C6_ClassifierIff ==
    cpc = "returned" =>
        verdict = ( /\ cdoc.has_infobox
                    /\ \/ CaptionHasKeyword(cdoc)
                       \/ LeadHasKeyword(cdoc)
                       \/ FirstLabelHasKeyword(cdoc)
                       \/ CategoryHasKeyword(cdoc) )

(***************************************************************************)
(* parse: the callback of a category page.                                 *)
(*                                                                         *)
(* An href is a well-formed link to a URL of the site (relative or         *)
(* absolute; ns: the text after its last '/wiki/' holds a ':'), the empty  *)
(* string, a malformed reference for which urljoin raises ValueError       *)
(* ("//[x/wiki/A"), or a reference with a scheme and no "://"              *)
(* ("javascript:void(0)"), which urljoin returns unchanged and for which   *)
(* the Request constructor raises ValueError.                              *)
(***************************************************************************)
Urls == 1..NumUrls
Seed == 1

Link(u, ns) == [kind |-> "link", to |-> u, ns |-> ns]
EmptyHref == [kind |-> "empty", to |-> Seed, ns |-> FALSE]
MalformedHref == [kind |-> "malformed", to |-> Seed, ns |-> FALSE]
SchemeHref == [kind |-> "scheme", to |-> Seed, ns |-> TRUE]

\* ":" in href.split("/wiki/")[-1]
has_colon(href) == href.ns

NoHref == [kind |-> "none", to |-> Seed, ns |-> FALSE]

\* selector.get() on @href nodes: the first one or None
get_href(nodes) == IF nodes = <<>> THEN NoHref ELSE nodes[1]

\* bool(href) of an optional href
href_truthy(href) == href.kind \notin {"none", "empty"}

\* scrapy.Request(response.urljoin(href), ...) raises
request_raises(href) == href.kind \in {"malformed", "scheme"}

\* response.urljoin(href) when it does not raise
urljoin(base, href) == IF href.kind = "empty" THEN base ELSE href.to

Req(u, cb, via) == [url |-> u, cb |-> cb, via |-> via]

Out(yields, raised) == [yields |-> yields, raised |-> raised]

\* a for loop of parse: one Request per href, until a statement raises
RECURSIVE yield_links(_, _, _, _)
yield_links(base, hrefs, cb, via) ==
    IF hrefs = <<>> THEN Out(<<>>, FALSE)
    ELSE IF cb = "parse_article" /\ has_colon(Head(hrefs))
         THEN yield_links(base, Tail(hrefs), cb, via)
    ELSE IF request_raises(Head(hrefs)) THEN Out(<<>>, TRUE)
    ELSE LET rest == yield_links(base, Tail(hrefs), cb, via)
         IN  Out(<<Req(urljoin(base, Head(hrefs)), cb, via)>> \o rest.yields, rest.raised)

\* lines 62-67
yield_next(response) ==
    LET by_text == get_href(response.next_text)
        next_page == IF ~href_truthy(by_text) THEN get_href(response.next_rel) ELSE by_text
    IN  IF ~href_truthy(next_page) THEN Out(<<>>, FALSE)
        ELSE IF request_raises(next_page) THEN Out(<<>>, TRUE)
        ELSE Out(<<Req(urljoin(response.url, next_page), "parse", "next")>>, FALSE)

\* lines 43-67: the requests the generator yields before it ends or raises
parse(response) ==
    LET subs == yield_links(response.url, response.subcats, "parse", "subcat")
        pages == yield_links(response.url, response.page_links, "parse_article", "page")
        nxt == yield_next(response)
    IN  IF subs.raised THEN subs
        ELSE IF pages.raised THEN Out(subs.yields \o pages.yields, TRUE)
        ELSE Out(subs.yields \o pages.yields \o nxt.yields, nxt.raised)

CategoryPage(u, subcats, page_links, next_text, next_rel) ==
    [url |-> u, subcats |-> subcats, page_links |-> page_links,
     next_text |-> next_text, next_rel |-> next_rel]

(***************************************************************************)
(* SpecParse: parse applied to one category response.                      *)
(***************************************************************************)
ParseHrefs ==
    { Link(Seed, FALSE), Link(Seed + 1, FALSE), Link(Seed + 1, TRUE),
      EmptyHref, MalformedHref, SchemeHref }

ParsePages(n) ==
    { CategoryPage(Seed, s, p, nt, nr) :
        s \in SeqsUpTo(ParseHrefs, n), p \in SeqsUpTo(ParseHrefs, n),
        nt \in {<<>>} \cup {<<h>> : h \in ParseHrefs},
        nr \in {<<>>} \cup {<<h>> : h \in ParseHrefs} }

InitParse ==
    /\ presp \in ParsePages(MaxLinks)
    /\ ppc = "call"
    /\ pout = NoDoc
    /\ ArticleIdle
    /\ ClassifyIdle
    /\ CrawlIdle

\* lines 43-67
RunParse ==
    /\ ppc = "call"
    /\ pout' = parse(presp)
    /\ ppc' = "returned"
    /\ UNCHANGED <<presp, articleVars, classifyVars, crawlVars>>

NextParse == RunParse

SpecParse == InitParse /\ [][NextParse]_vars

RECURSIVE select_via(_, _)
select_via(yields, via) ==
    IF yields = <<>> THEN <<>>
    ELSE IF Head(yields).via = via THEN <<Head(yields)>> \o select_via(Tail(yields), via)
    ELSE select_via(Tail(yields), via)

\* C9: each processed category page queues at most one next-page request:
\* exactly one when a 'next page' text link or, failing that, a rel=next link
\* is present (the text link first), and none when the page has neither.
C9_OneNextRequest ==
    ppc = "returned" =>
        LET nexts == select_via(pout.yields, "next")
            link == IF presp.next_text # <<>> THEN presp.next_text[1] ELSE presp.next_rel[1]
        IN  IF presp.next_text = <<>> /\ presp.next_rel = <<>>
            THEN nexts = <<>>
            ELSE /\ Len(nexts) = 1
                 /\ link.kind = "link" => nexts[1].url = link.to

\* the requests of a page when every href that cannot be resolved is skipped
\* on its own
RECURSIVE links_skipping(_, _, _, _)
links_skipping(base, hrefs, cb, via) ==
    IF hrefs = <<>> THEN <<>>
    ELSE IF \/ cb = "parse_article" /\ has_colon(Head(hrefs))
            \/ Head(hrefs).kind \in {"malformed", "scheme"}
         THEN links_skipping(base, Tail(hrefs), cb, via)
    ELSE <<Req(urljoin(base, Head(hrefs)), cb, via)>> \o links_skipping(base, Tail(hrefs), cb, via)

\* C10: an href that cannot be resolved is skipped on its own: the page's
\* processing does not abort, and every other link of the page (before and
\* after the bad one) and the pagination link still produce their requests.
C10_BadLinkSkipped ==
    ppc = "returned" =>
        /\ ~pout.raised
        /\ select_via(pout.yields, "subcat")
             = links_skipping(presp.url, presp.subcats, "parse", "subcat")
        /\ select_via(pout.yields, "page")
             = links_skipping(presp.url, presp.page_links, "parse_article", "page")
        /\ (yield_next(presp).yields # <<>>) => select_via(pout.yields, "next") # <<>>

(***************************************************************************)
(* The crawl (Spec, FairSpec).                                             *)
(*                                                                         *)
(* process.crawl(FilmsSpider); process.start() runs the engine: it issues  *)
(* one start request per entry of start_urls, with dont_filter=True, so    *)
(* it passes the scheduler without being recorded by the duplicate filter. *)
(* Every Request a callback yields is built with the default               *)
(* dont_filter=False: the scheduler drops it when the duplicate filter has *)
(* seen its URL and records the URL otherwise.  The filter looks at the    *)
(* URL, not at the callback.  Up to CONCURRENT_REQUESTS_PER_DOMAIN         *)
(* requests are downloaded at once; responses arrive in any order and each *)
(* callback runs to its end before the next one starts.  A failed download *)
(* drops the request.  What a URL serves is decided when it is downloaded. *)
(***************************************************************************)
ConcurrentRequests == 4

U_Wiki == <<"w", ".", "o", "r", "g", "/", "w", "i", "k", "i", "/">>

\* the text of URL u, as response.url gives it
UrlText(u) == U_Wiki \o [i \in 1..u |-> "A"]

\* what a URL can serve to parse: at most one link in each zone
CrawlHrefs == {Link(v, FALSE) : v \in Urls} \cup {EmptyHref, MalformedHref}
CrawlZones == {<<>>} \cup {<<h>> : h \in CrawlHrefs}
CrawlPages(u) ==
    { CategoryPage(u, s, p, nt, nr) :
        s \in CrawlZones, p \in CrawlZones, nt \in CrawlZones, nr \in CrawlZones }

\* what a URL can serve to parse_article: a film page, a page with an infobox
\* and no keyword, a page without infobox
CrawlDocs(u) ==
    { Doc(<<>>, UrlText(u), TRUE, <<T_Film>>, <<Row(<<T_God>>, <<T_2015god>>)>>, <<>>, <<>>),
      Doc(<<T_FilmA>>, UrlText(u), TRUE, <<>>, <<Row(<<T_God>>, <<T_2015god>>)>>,
          <<T_lead_aktyor>>, <<T_Aktyory>>),
      Doc(<<T_FilmA>>, UrlText(u), FALSE, <<>>, <<>>, <<T_lead_film1999>>, <<>>) }

\* the results of parse over the pages a URL can serve
ParseResults == [u \in Urls |-> {parse(p) : p \in CrawlPages(u)}]

\* a duplicate filter that never reports a URL as seen
request_seen_never(sn, u) == FALSE

\* the duplicate filter's test for a Request built with dont_filter=False
request_seen(sn, u) == u \in sn

Pending(u, cb) == [url |-> u, cb |-> cb]

\* the scheduler taking the requests a callback yielded, in order
RECURSIVE schedule(_, _, _)
schedule(fr, sn, yields) ==
    IF yields = <<>> THEN [frontier |-> fr, seen |-> sn]
    ELSE LET r == Head(yields)
         IN  IF request_seen(sn, r.url) THEN schedule(fr, sn, Tail(yields))
             ELSE schedule(fr (+) SetToBag({Pending(r.url, r.cb)}), sn \cup {r.url},
                           Tail(yields))

Init ==
    /\ started = FALSE
    /\ frontier = EmptyBag
    /\ seen = {}
    /\ inflight = EmptyBag
    /\ fetchCount = [u \in Urls |-> 0]
    /\ records = <<>>
    /\ articleLog = <<>>
    /\ failed = {}
    /\ ArticleIdle
    /\ ClassifyIdle
    /\ ParseIdle

\* start_urls, lines 23-25: Request(url, dont_filter=True)
StartRequests ==
    /\ ~started
    /\ started' = TRUE
    /\ frontier' = frontier (+) SetToBag({Pending(Seed, "parse")})
    /\ UNCHANGED <<seen, inflight, fetchCount, records, articleLog, failed>>
    /\ UNCHANGED <<articleVars, classifyVars, parseVars>>

\* the engine starts the download of a scheduled request
Download(r) ==
    /\ BagIn(r, frontier)
    /\ BagCardinality(inflight) < ConcurrentRequests
    /\ fetchCount[r.url] < MaxFetches
    /\ frontier' = frontier (-) SetToBag({r})
    /\ inflight' = inflight (+) SetToBag({r})
    /\ fetchCount' = [fetchCount EXCEPT ![r.url] = @ + 1]
    /\ UNCHANGED <<started, seen, records, articleLog, failed>>
    /\ UNCHANGED <<articleVars, classifyVars, parseVars>>

\* a download fails: the request is dropped and no callback runs
FetchFail(r) ==
    /\ BagIn(r, inflight)
    /\ inflight' = inflight (-) SetToBag({r})
    /\ failed' = failed \cup {r.url}
    /\ UNCHANGED <<started, frontier, seen, fetchCount, records, articleLog>>
    /\ UNCHANGED <<articleVars, classifyVars, parseVars>>

\* a response arrives for a request with callback=self.parse
CategoryResponse(r) ==
    /\ BagIn(r, inflight)
    /\ r.cb = "parse"
    /\ \E out \in ParseResults[r.url] :
          LET s == schedule(frontier, seen, out.yields)
          IN  /\ frontier' = s.frontier
              /\ seen' = s.seen
    /\ inflight' = inflight (-) SetToBag({r})
    /\ UNCHANGED <<started, fetchCount, records, articleLog, failed>>
    /\ UNCHANGED <<articleVars, classifyVars, parseVars>>

\* a response arrives for a request with callback=self.parse_article
ArticleResponse(r) ==
    /\ BagIn(r, inflight)
    /\ r.cb = "parse_article"
    /\ \E response \in CrawlDocs(r.url) :
          LET items == parse_article(response)
          IN  /\ records' = records \o [i \in 1..Len(items) |->
                                           [url |-> r.url, item |-> items[i]]]
              /\ articleLog' = Append(articleLog,
                                      [url |-> r.url, accepted |-> is_film_page(response)])
    /\ inflight' = inflight (-) SetToBag({r})
    /\ UNCHANGED <<started, frontier, seen, fetchCount, failed>>
    /\ UNCHANGED <<articleVars, classifyVars, parseVars>>

Requests == {Pending(u, cb) : u \in Urls, cb \in {"parse", "parse_article"}}

Next ==
    \/ StartRequests
    \/ \E r \in Requests : Download(r)
    \/ \E r \in Requests : FetchFail(r)
    \/ \E r \in Requests : CategoryResponse(r)
    \/ \E r \in Requests : ArticleResponse(r)

Spec == Init /\ [][Next]_vars

\* the engine keeps downloading while requests are scheduled, and every
\* download ends with a response or a failure
FairSpec == Spec /\ WF_vars(Next)

CrawlDone == started /\ frontier = EmptyBag /\ inflight = EmptyBag

(***************************************************************************)
(* Properties of the crawl.                                                *)
(***************************************************************************)
\* C1: no URL is scheduled or downloaded more than once, whatever the order
\* of the callbacks: a URL discovered again (on another page, through a
\* cycle, twice on one page) causes no further download.
C1_FetchedAtMostOnce ==
    \A u \in DOMAIN fetchCount : fetchCount[u] <= 1

\* C2: on a finite site, cycles and failed downloads included, the crawl
\* ends: from some point on no request is scheduled or in flight.
C2_Terminates == <>[]CrawlDone

\* the crawl has ended after a cycle led back to the start URL, which was
\* downloaded again, and after a download failed
C2_Witness ==
    /\ CrawlDone
    /\ fetchCount[Seed] > 1
    /\ failed # {}
    /\ \E u \in Urls \ {Seed} : fetchCount[u] > 0 /\ u \notin failed

RECURSIVE accepted_urls(_)
accepted_urls(log) ==
    IF log = <<>> THEN <<>>
    ELSE IF Head(log).accepted THEN <<Head(log).url>> \o accepted_urls(Tail(log))
    ELSE accepted_urls(Tail(log))

====
